---------------------------- MODULE Spec2Model ----------------------------
(***************************************************************************)
(* gin-api: the POST /api/v1/data pipeline of main.go.                     *)
(*                                                                         *)
(* A request body is a sequence of JSON tokens.  A token is a record       *)
(* [k, v]: k is its kind ("p" punctuation, "s" string literal, "n" number  *)
(* literal, "w" one whitespace character) and v its characters.  Strings   *)
(* are sequences of one-character strings, so that the alphanumeric check  *)
(* and the case folding of the decoder look at the characters.             *)
(***************************************************************************)
EXTENDS Integers, Sequences, FiniteSets, TLC

\* ------------------------------------------------------------------ bounds

\* Number of requests the clients send.
NumReq == 2

\* Greatest number of tokens of a body, where every body is tried.
MaxLen == 5

\* ------------------------------------------------------------- characters

\* The ASCII letters and digits the requests use.
UpperChars == <<"A", "B", "C", "D", "E", "I", "K", "T">>
LowerChars == <<"a", "b", "c", "d", "e", "i", "k", "t">>
DigitChars == {"0", "1", "2", "3", "4", "5", "6", "7", "8", "9"}

P(c) == [k |-> "p", v |-> <<c>>]
S(cs) == [k |-> "s", v |-> cs]
N(cs) == [k |-> "n", v |-> cs]
W(c) == [k |-> "w", v |-> <<c>>]

Space == W(" ")
Newline == W("\n")

\* ------------------------------------------------------------ json.Compact

\* encoding/json's scanner, one token at a time.  st is the scanner's step
\* (what it expects next), stack its parseState stack.
RECURSIVE Scan(_, _, _, _)
Scan(toks, i, st, stack) ==
    IF i > Len(toks) THEN st = "end" /\ stack = << >>
    ELSE
      LET t == toks[i]
          top == IF stack = << >> THEN "none" ELSE stack[Len(stack)]
          pop == SubSeq(stack, 1, Len(stack) - 1)
          retop(x) == Append(pop, x)
          BeginValue ==
              IF t.k \in {"s", "n"} THEN Scan(toks, i + 1, "end", stack)
              ELSE IF t = P("{") THEN Scan(toks, i + 1, "keyOrEmpty", Append(stack, "objKey"))
              ELSE IF t = P("[") THEN Scan(toks, i + 1, "valueOrEmpty", Append(stack, "arr"))
              ELSE FALSE
          BeginString ==
              IF t.k = "s" THEN Scan(toks, i + 1, "end", stack) ELSE FALSE
      IN  IF t.k = "w" THEN Scan(toks, i + 1, st, stack)
          ELSE IF st = "value" THEN BeginValue
          ELSE IF st = "valueOrEmpty" THEN
              IF t = P("]") THEN Scan(toks, i + 1, "end", pop) ELSE BeginValue
          ELSE IF st = "keyOrEmpty" THEN
              IF t = P("}") THEN Scan(toks, i + 1, "end", pop) ELSE BeginString
          ELSE IF st = "key" THEN BeginString
          ELSE \* st = "end": a value has just ended
              IF top = "objKey" THEN
                  IF t = P(":") THEN Scan(toks, i + 1, "value", retop("objVal")) ELSE FALSE
              ELSE IF top = "objVal" THEN
                  IF t = P(",") THEN Scan(toks, i + 1, "key", retop("objKey"))
                  ELSE IF t = P("}") THEN Scan(toks, i + 1, "end", pop)
                  ELSE FALSE
              ELSE IF top = "arr" THEN
                  IF t = P(",") THEN Scan(toks, i + 1, "value", stack)
                  ELSE IF t = P("]") THEN Scan(toks, i + 1, "end", pop)
                  ELSE FALSE
              ELSE FALSE \* a second top-level value

\* Whether the scanner accepts toks as exactly one JSON value.
ValidJSON(toks) == Scan(toks, 1, "value", << >>)

\* The tokens of toks that are not insignificant whitespace.
RECURSIVE StripWs(_)
StripWs(toks) ==
    IF toks = << >> THEN << >>
    ELSE IF Head(toks).k = "w" THEN StripWs(Tail(toks))
    ELSE <<Head(toks)>> \o StripWs(Tail(toks))

\* A Compact that copies src without eliding anything.
CompactKeep(src) ==
    IF ValidJSON(src) THEN [err |-> FALSE, out |-> src]
    ELSE [err |-> TRUE, out |-> << >>]

\* A Compact that does not report what the scanner rejects.
CompactLax(src) == [err |-> FALSE, out |-> StripWs(src)]

\* A Compact that checks src and writes nothing to dst.
CompactDiscard(src) == [err |-> ~ValidJSON(src), out |-> << >>]

\* json.Compact(dst, src): err # nil iff src is not valid JSON; on success
\* dst receives src with the insignificant whitespace elided.
Compact(src) ==
    IF ValidJSON(src) THEN [err |-> FALSE, out |-> StripWs(src)]
    ELSE [err |-> TRUE, out |-> << >>]

\* ------------------------------------------------------------- json.Indent

\* A line break followed by depth copies of the indent string "  ".
RECURSIVE Spaces(_)
Spaces(n) == IF n = 0 THEN << >> ELSE <<Space>> \o Spaces(n - 1)

NewlineIndent(depth) == <<Newline>> \o Spaces(2 * depth)

\* The loop of json.Indent over src, prefix "" and indent "  ": whitespace of
\* src is dropped, an opening bracket delays its line break until the next
\* token shows the container is not empty.
RECURSIVE IndentFrom(_, _, _, _)
IndentFrom(src, i, depth, needIndent) ==
    IF i > Len(src) THEN << >>
    ELSE
      LET t == src[i]
      IN  IF t.k = "w" THEN IndentFrom(src, i + 1, depth, needIndent)
          ELSE IF t \in {P("{"), P("[")} THEN
              (IF needIndent THEN NewlineIndent(depth + 1) ELSE << >>)
                 \o <<t>>
                 \o IndentFrom(src, i + 1, IF needIndent THEN depth + 1 ELSE depth, TRUE)
          ELSE IF t = P(",") THEN
              <<t>> \o NewlineIndent(depth) \o IndentFrom(src, i + 1, depth, FALSE)
          ELSE IF t = P(":") THEN
              <<t, Space>> \o IndentFrom(src, i + 1, depth, FALSE)
          ELSE IF t \in {P("}"), P("]")} THEN
              IF needIndent
                THEN <<t>> \o IndentFrom(src, i + 1, depth, FALSE)
                ELSE NewlineIndent(depth - 1) \o <<t>>
                        \o IndentFrom(src, i + 1, depth - 1, FALSE)
          ELSE
              (IF needIndent THEN NewlineIndent(depth + 1) ELSE << >>)
                 \o <<t>>
                 \o IndentFrom(src, i + 1, IF needIndent THEN depth + 1 ELSE depth, FALSE)

\* json.Indent(dst, src, "", "  "): err # nil iff src is not valid JSON.
Indent(src) ==
    IF ValidJSON(src) THEN [err |-> FALSE, out |-> IndentFrom(src, 1, 0, FALSE)]
    ELSE [err |-> TRUE, out |-> << >>]

\* ----------------------------------------------------------- json.Unmarshal

\* The decoder's match of an object key against a struct field name: equal
\* after folding the case of each letter.
FoldChar(c) ==
    IF \E j \in 1..Len(UpperChars) : UpperChars[j] = c
      THEN LowerChars[CHOOSE j \in 1..Len(UpperChars) : UpperChars[j] = c]
      ELSE c

Fold(cs) == [j \in 1..Len(cs) |-> FoldChar(cs[j])]

\* The name of the only field of Data (it carries no json tag).
TicketField == <<"T", "i", "c", "k", "e", "t">>

KeyMatches(key) == Fold(key) = Fold(TicketField)

\* The walk of the top-level object's members, src being valid JSON without
\* whitespace: a string followed by a colon at depth 1 is a member's key.  A
\* matching key whose value is a string literal assigns the field; any other
\* value leaves it as it was (null is a no-op, another type an
\* UnmarshalTypeError the decoder records and walks past).
RECURSIVE DecodeFrom(_, _, _, _)
DecodeFrom(src, i, depth, ticket) ==
    IF i > Len(src) THEN ticket
    ELSE
      LET t == src[i]
      IN  IF t \in {P("{"), P("[")} THEN DecodeFrom(src, i + 1, depth + 1, ticket)
          ELSE IF t \in {P("}"), P("]")} THEN DecodeFrom(src, i + 1, depth - 1, ticket)
          ELSE IF /\ depth = 1
                  /\ t.k = "s"
                  /\ i + 2 <= Len(src)
                  /\ src[i + 1] = P(":")
                  /\ KeyMatches(t.v)
                  /\ src[i + 2].k = "s"
               THEN DecodeFrom(src, i + 3, depth, src[i + 2].v)
          ELSE DecodeFrom(src, i + 1, depth, ticket)

\* var tmp Data; _ = json.Unmarshal(body, &tmp): tmp as it is afterwards.  The
\* error is dropped; invalid JSON and a top-level value that is no object
\* leave tmp at its zero value.
Unmarshal(body) ==
    LET src == StripWs(body)
    IN  IF ValidJSON(body) /\ src[1] = P("{")
          THEN [Ticket |-> DecodeFrom(src, 1, 0, << >>)]
          ELSE [Ticket |-> << >>]

\* --------------------------------------------------------- validate.Struct

\* validator.v9's alphanum: ^[a-zA-Z0-9]+$
IsAlnumChar(c) ==
    \/ c \in DigitChars
    \/ \E j \in 1..Len(UpperChars) : c = UpperChars[j] \/ c = LowerChars[j]

\* A validation whose tag is `validate:"required"` alone.
ValidateRequiredOnly(tmp) == IF tmp.Ticket = << >> THEN "required" ELSE ""

\* validate.Struct(tmp) for `validate:"required,alphanum"`: the tag of the
\* first rule Ticket violates, "" when it violates none.
ValidateStruct(tmp) ==
    IF tmp.Ticket = << >> THEN "required"
    ELSE IF \E j \in 1..Len(tmp.Ticket) : ~IsAlnumChar(tmp.Ticket[j]) THEN "alphanum"
    ELSE ""

\* ---------------------------------------------------------------- inputs

TicketKey == <<"t", "i", "c", "k", "e", "t">>
AB12 == <<"A", "B", "1", "2">>
CD34 == <<"C", "D", "3", "4">>

\* (empty body)
BodyEmpty == << >>
\* {"ticket":
BodyTruncated == <<P("{"), S(TicketKey), P(":")>>
\* ["AB12"]
BodyArray == <<P("["), S(AB12), P("]")>>
\* {"x":1}
BodyNoTicket == <<P("{"), S(<<"x">>), P(":"), N(<<"1">>), P("}")>>
\* {"ticket":12}
BodyNumTicket == <<P("{"), S(TicketKey), P(":"), N(<<"1", "2">>), P("}")>>
\* {"ticket":""}
BodyEmptyTicket == <<P("{"), S(TicketKey), P(":"), S(<< >>), P("}")>>
\* {"ticket":"A-1"}
BodyDashTicket == <<P("{"), S(TicketKey), P(":"), S(<<"A", "-", "1">>), P("}")>>
\* { "ticket" : "AB12", "x":1 }
BodyA1 == <<P("{"), Space, S(TicketKey), Space, P(":"), Space, S(AB12), P(","),
            Space, S(<<"x">>), P(":"), N(<<"1">>), Space, P("}")>>
\* {"ticket":"AB12","x":2}
BodyA2 == <<P("{"), S(TicketKey), P(":"), S(AB12), P(","),
            S(<<"x">>), P(":"), N(<<"2">>), P("}")>>
\* {"x":{"ticket":"-"},"TICKET":"CD34"}
BodyUpperKey == <<P("{"), S(<<"x">>), P(":"), P("{"), S(TicketKey), P(":"), S(<<"-">>),
                  P("}"), P(","), S(<<"T", "I", "C", "K", "E", "T">>), P(":"), S(CD34),
                  P("}")>>

Bodies == {BodyEmpty, BodyTruncated, BodyArray, BodyNoTicket, BodyNumTicket,
           BodyEmptyTicket, BodyDashTicket, BodyUpperKey, BodyA1, BodyA2}

\* Values of the `token` request header ("" when the header is absent) and of
\* the API_TOKEN environment variable ("" when it is unset).
Tokens == {"", "secret", "wrong"}
EnvTokens == {"", "secret"}

\* The requests the clients send: every body with the token "secret", a
\* valid and an invalid body with no token, a valid body with another token.
Inputs ==
    {[token |-> "secret", body |-> b] : b \in Bodies}
       \cup {[token |-> "", body |-> BodyA1],
             [token |-> "", body |-> BodyEmpty],
             [token |-> "wrong", body |-> BodyA1]}

\* The second time.Now() reads; no operation compares timestamps.
Times == {0}

\* conf.DataDir
DataDir == <<"/data">>

\* ------------------------------------------------------------------ state

Reqs == 1..NumReq

VARIABLES
    apiToken,   \* os.Getenv("API_TOKEN")
    alive,      \* the serving process runs
    req,        \* per request: the handler's position, locals and response
    files,      \* the files of conf.DataDir: path -> content
    hasTable,   \* table build_info exists in conf.DBFile
    rows,       \* the rows of build_info, in insertion order
    procs       \* the deploy processes started, in start order

vars == <<apiToken, alive, req, files, hasTable, rows, procs>>

\* The zero value of BuildInfo.
NoInfo == [Id |-> 0, Date |-> 0, Data |-> << >>]

\* No response written yet.
NoResp == [status |-> 0, key |-> "", msg |-> "", info |-> NoInfo]

\* An error response whose body is keyed "message".
ErrorRespMessage(status, msg) == [status |-> status, key |-> "message", msg |-> msg, info |-> NoInfo]

\* c.JSON(status, gin.H{"error": msg})
ErrorResp(status, msg) == [status |-> status, key |-> "error", msg |-> msg, info |-> NoInfo]

\* c.JSON(201, gin.H{"success": info})
SuccessResp(info) == [status |-> 201, key |-> "success", msg |-> "", info |-> info]

\* A request that has not been sent.
Idle ==
    [pc |-> "idle", token |-> "", body |-> << >>, payload |-> << >>, now |-> 0,
     tmp |-> [Ticket |-> << >>], jsonOut |-> << >>, outFile |-> << >>,
     writeErr |-> FALSE, db |-> "none", createErr |-> FALSE, info |-> NoInfo,
     cmdErr |-> FALSE, resp |-> NoResp]

Init ==
    /\ apiToken \in EnvTokens
    /\ alive = TRUE
    /\ req = [r \in Reqs |-> Idle]
    /\ files = [p \in {} |-> << >>]
    /\ hasTable = FALSE
    /\ rows = << >>
    /\ procs = << >>

\* Whether the router runs TokenAuthMiddleware before PostData.
AuthInstalled == apiToken # ""

\* A path built without conf.DataDir.
OutFileNoDir(ticket) == ticket \o <<".json">>

\* outFile := fmt.Sprintf("%s/%s.json", conf.DataDir, tmp.Ticket)
OutFile(ticket) == DataDir \o <<"/">> \o ticket \o <<".json">>

\* A write that leaves a file that exists as it is (O_EXCL).
PutFileKeep(fs, path, content) ==
    [p \in DOMAIN fs \cup {path} |-> IF p \in DOMAIN fs THEN fs[p] ELSE content]

\* files with path holding content.
PutFile(fs, path, content) ==
    [p \in DOMAIN fs \cup {path} |-> IF p = path THEN content ELSE fs[p]]

InFlight(r) == req[r].pc \notin {"idle", "done", "fatal"}

\* ---------------------------------------------------------------- actions

Set(r, fields) == req' = [req EXCEPT ![r] = fields]

\* A client sends request r: gin runs the handler chain, TokenAuthMiddleware
\* first when the router uses it (main, lines 304-307), PostData otherwise.
\* Requests are sent in the order of their numbers.
Arrive(r) ==
    /\ alive
    /\ req[r].pc = "idle"
    /\ \A q \in Reqs : q < r => req[q].pc # "idle"
    /\ \E in \in Inputs :
          Set(r, [Idle EXCEPT !.token = in.token, !.body = in.body,
                              !.pc = IF AuthInstalled THEN "auth" ELSE "validate"])
    /\ UNCHANGED <<apiToken, alive, files, hasTable, rows, procs>>

\* A middleware that only asks for the header to be present.
AuthResponseAnyToken(token) ==
    IF token = "" THEN ErrorResp(401, "API token required") ELSE NoResp

\* The response of TokenAuthMiddleware to a header value, NoResp when it
\* calls c.Next().
AuthResponse(token) ==
    IF token = "" THEN ErrorResp(401, "API token required")
    ELSE IF token # apiToken THEN ErrorResp(401, "Invalid API token")
    ELSE NoResp

\* A middleware that writes 401 and goes on to the handler (no c.Abort()).
TokenAuthMiddlewareNoAbort(r) ==
    /\ alive
    /\ req[r].pc = "auth"
    /\ Set(r, [req[r] EXCEPT !.resp = AuthResponse(req[r].token), !.pc = "validate"])
    /\ UNCHANGED <<apiToken, alive, files, hasTable, rows, procs>>

TokenAuthMiddleware(r) ==
    /\ alive
    /\ req[r].pc = "auth"
    /\ LET resp == AuthResponse(req[r].token)
       IN  IF resp # NoResp
             THEN Set(r, [req[r] EXCEPT !.resp = resp, !.pc = "done"])
             ELSE Set(r, [req[r] EXCEPT !.pc = "validate"])
    /\ UNCHANGED <<apiToken, alive, files, hasTable, rows, procs>>

\* PostData, lines 120-159: read the body, compact it, read the clock, decode
\* the body into tmp and validate tmp.  c, tmp and tag are the values of the
\* code's payload/err, tmp and validation error, each computed once.
PostDataValidate(r) ==
    /\ alive
    /\ req[r].pc = "validate"
    /\ \E c \in {Compact(req[r].body)}, tmp \in {Unmarshal(req[r].body)} :
         \E tag \in {ValidateStruct(tmp)} :
           IF c.err
             THEN Set(r, [req[r] EXCEPT
                     !.resp = ErrorResp(452, "Could not convert POST data to JSON"),
                     !.pc = "done"])
             ELSE \E now \in Times :
                    IF tag # ""
                      THEN Set(r, [req[r] EXCEPT !.payload = c.out, !.now = now,
                                      !.tmp = tmp, !.resp = ErrorResp(453, tag),
                                      !.pc = "done"])
                      ELSE Set(r, [req[r] EXCEPT !.payload = c.out, !.now = now,
                                      !.tmp = tmp, !.pc = "artifact"])
    /\ UNCHANGED <<apiToken, alive, files, hasTable, rows, procs>>

\* A write that opens path with O_APPEND in place of O_TRUNC.
WrittenAppend(path, data) ==
    IF path \in DOMAIN files THEN files[path] \o data ELSE data

\* The content of path after a successful ioutil.WriteFile(path, data, 0644):
\* the file is created or truncated, then data is written.
Written(path, data) == data

\* What ioutil.WriteFile(path, data, 0644) can leave behind: data when it
\* succeeds; when it fails, the files as they were (the open failed) or path
\* truncated (the open succeeded and the write failed).
WriteFileOutcomes(path, data) ==
    {[err |-> FALSE, files |-> PutFile(files, path, Written(path, data))],
     [err |-> TRUE, files |-> files],
     [err |-> TRUE, files |-> PutFile(files, path, << >>)]}

\* A handler that goes on after a failed write.
AfterWriteNoReturn(writeErr) == "initdb"

\* A handler that tries the write again when it failed.
AfterWriteRetry(writeErr) == IF writeErr THEN "artifact" ELSE "initdb"

\* Where PostData goes after ioutil.WriteFile: it returns when writeErr # nil.
AfterWrite(writeErr) == IF writeErr THEN "done" ELSE "initdb"

\* PostData, lines 161-179: indent the compacted payload, append "\n", write
\* the file.
PostDataArtifact(r) ==
    /\ alive
    /\ req[r].pc = "artifact"
    /\ \E j \in {Indent(req[r].payload)} :
        \E jsonOut \in {j.out \o <<Newline>>}, outFile \in {OutFile(req[r].tmp.Ticket)} :
           IF j.err
             THEN /\ Set(r, [req[r] EXCEPT
                        !.resp = ErrorResp(454, "Could not convert payload to jsonOut"),
                        !.pc = "done"])
                  /\ files' = files
             ELSE \E w \in WriteFileOutcomes(outFile, jsonOut) :
                    /\ files' = w.files
                    /\ IF w.err
                         THEN Set(r, [req[r] EXCEPT !.jsonOut = jsonOut,
                                         !.outFile = outFile, !.writeErr = TRUE,
                                         !.resp = ErrorResp(455, "Unable to create"),
                                         !.pc = AfterWrite(TRUE)])
                         ELSE Set(r, [req[r] EXCEPT !.jsonOut = jsonOut,
                                         !.outFile = outFile, !.pc = AfterWrite(FALSE)])
    /\ UNCHANGED <<apiToken, alive, hasTable, rows, procs>>

\* The response of gin's Recovery middleware (gin.Default(), line 299) to a
\* panic of the handler.
RecoveryResp == [status |-> 500, key |-> "", msg |-> "", info |-> NoInfo]

\* A handler that removes the file it wrote when the database cannot be
\* opened.
PostDataInitDbCleanup(r) ==
    /\ alive
    /\ req[r].pc = "initdb"
    /\ \E openOk \in BOOLEAN :
          IF ~openOk
            THEN /\ Set(r, [req[r] EXCEPT !.resp = RecoveryResp, !.pc = "done"])
                 /\ files' = [p \in DOMAIN files \ {req[r].outFile} |-> files[p]]
                 /\ UNCHANGED hasTable
            ELSE /\ hasTable' = TRUE
                 /\ files' = files
                 /\ Set(r, [req[r] EXCEPT !.db = "open", !.pc = "create"])
    /\ UNCHANGED <<apiToken, alive, rows, procs>>

\* PostData, lines 181-184: db := InitDb(); defer db.Close().  When
\* gorm.Open fails InitDb panics and no connection stays open.  Otherwise the
\* table is created when it is absent.  InitDb does not look at the errors of
\* CreateTable: a CreateTable that failed shows as the failure of the insert
\* that follows it.
PostDataInitDb(r) ==
    /\ alive
    /\ req[r].pc = "initdb"
    /\ \E openOk \in BOOLEAN :
          IF ~openOk
            THEN /\ Set(r, [req[r] EXCEPT !.resp = RecoveryResp, !.pc = "done"])
                 /\ UNCHANGED hasTable
            ELSE /\ hasTable' = TRUE
                 /\ Set(r, [req[r] EXCEPT !.db = "open", !.pc = "create"])
    /\ UNCHANGED <<apiToken, alive, files, rows, procs>>

\* The row db.Create(&info) inserts: the next AUTOINCREMENT identifier.
NewRow(info) == [info EXCEPT !.Id = Len(rows) + 1]

\* An insert that is reported done and never reaches the table.
InsertLost(info) == rows

\* The table after db.Create(&info) succeeded.
Insert(info) == Append(rows, NewRow(info))

\* PostData, lines 186-200.  The error of db.Create is not looked at: the
\* 201 response is written whether or not the insert succeeded.  The 456
\* branch returns, which runs the deferred db.Close().
PostDataCreate(r) ==
    /\ alive
    /\ req[r].pc = "create"
    /\ LET info == [NoInfo EXCEPT !.Data = req[r].payload, !.Date = req[r].now]
       IN  IF info.Data # << >>
             THEN \E ok \in BOOLEAN :
                    /\ ok => hasTable
                    /\ IF ok
                         THEN /\ rows' = Insert(info)
                              /\ Set(r, [req[r] EXCEPT !.info = NewRow(info),
                                            !.resp = SuccessResp(NewRow(info)),
                                            !.pc = "deploy"])
                         ELSE /\ rows' = rows
                              /\ Set(r, [req[r] EXCEPT !.info = info,
                                            !.createErr = TRUE,
                                            !.resp = SuccessResp(info),
                                            !.pc = "deploy"])
             ELSE /\ rows' = rows
                  /\ Set(r, [req[r] EXCEPT !.info = info, !.db = "closed",
                                !.resp = ErrorResp(456, "Fields are empty"),
                                !.pc = "done"])
    /\ UNCHANGED <<apiToken, alive, files, hasTable, procs>>

\* A handler that logs the failure of cmd.Start() with log.Print and returns.
PostDataDeployLogOnly(r) ==
    /\ alive
    /\ req[r].pc = "deploy"
    /\ \E ok \in BOOLEAN :
          IF ok
            THEN /\ procs' = Append(procs, [by |-> r, JSON_FILE |-> req[r].outFile])
                 /\ Set(r, [req[r] EXCEPT !.db = "closed", !.pc = "done"])
            ELSE /\ procs' = procs
                 /\ Set(r, [req[r] EXCEPT !.cmdErr = TRUE, !.db = "closed", !.pc = "done"])
    /\ UNCHANGED <<apiToken, alive, files, hasTable, rows>>

\* PostData, lines 202-218.  cmd.Start() succeeding, PostData returns and the
\* deferred db.Close() runs.  cmd.Start() failing, log.Fatal exits the
\* process at once: deferred calls do not run.
PostDataDeploy(r) ==
    /\ alive
    /\ req[r].pc = "deploy"
    /\ \E ok \in BOOLEAN :
          IF ok
            THEN /\ procs' = Append(procs, [by |-> r, JSON_FILE |-> req[r].outFile])
                 /\ Set(r, [req[r] EXCEPT !.db = "closed", !.pc = "done"])
                 /\ alive' = alive
            ELSE /\ procs' = procs
                 /\ Set(r, [req[r] EXCEPT !.cmdErr = TRUE, !.pc = "fatal"])
                 /\ alive' = FALSE
    /\ UNCHANGED <<apiToken, files, hasTable, rows>>

Handle(r) ==
    \/ TokenAuthMiddleware(r)
    \/ PostDataValidate(r)
    \/ PostDataArtifact(r)
    \/ PostDataInitDb(r)
    \/ PostDataCreate(r)
    \/ PostDataDeploy(r)

Next == \E r \in Reqs : Arrive(r) \/ Handle(r)

Spec == Init /\ [][Next]_vars

\* One request of each kind of outcome: a valid one, one that is no JSON, one
\* whose ticket is not alphanumeric, one without the token header.
FairInputs ==
    {[token |-> "secret", body |-> BodyA2],
     [token |-> "secret", body |-> BodyEmpty],
     [token |-> "secret", body |-> BodyDashTicket],
     [token |-> "", body |-> BodyA2]}

\* A client sends request r, one of FairInputs.
ArriveFair(r) ==
    /\ alive
    /\ req[r].pc = "idle"
    /\ \A q \in Reqs : q < r => req[q].pc # "idle"
    /\ \E in \in FairInputs :
          Set(r, [Idle EXCEPT !.token = in.token, !.body = in.body,
                              !.pc = IF AuthInstalled THEN "auth" ELSE "validate"])
    /\ UNCHANGED <<apiToken, alive, files, hasTable, rows, procs>>

NextFair == \E r \in Reqs : ArriveFair(r) \/ Handle(r)

\* Every handler runs on a goroutine of its own, which the scheduler keeps
\* running, and every blocking call it makes returns: a handler that can take
\* its next step takes it.  Clients need not send anything.
SpecFair == Init /\ [][NextFair]_vars /\ \A r \in Reqs : WF_vars(Handle(r))

\* Clients that send a request only once every earlier one has been handled.
ArriveSeq(r) == (\A q \in Reqs : ~InFlight(q)) /\ Arrive(r)

NextSeq == \E r \in Reqs : ArriveSeq(r) \/ Handle(r)

SpecSeq == Init /\ [][NextSeq]_vars

\* The tokens of the bodies of at most MaxLen tokens, and those bodies.
JsonAlphabet ==
    {P("{"), P("}"), P("["), P("]"), P(":"), P(","), S(TicketKey), S(AB12), Space}

AllBodies == UNION {[1..n -> JsonAlphabet] : n \in 0..MaxLen}

\* One client sends one request, with any body of at most MaxLen tokens, to
\* a server that runs without API_TOKEN; PostData handles it.
InitJson ==
    /\ apiToken = ""
    /\ alive = TRUE
    /\ \E b \in AllBodies :
          req = [r \in Reqs |-> IF r = 1 THEN [Idle EXCEPT !.body = b, !.pc = "validate"]
                                         ELSE Idle]
    /\ files = [p \in {} |-> << >>]
    /\ hasTable = FALSE
    /\ rows = << >>
    /\ procs = << >>

NextJson ==
    \/ PostDataValidate(1)
    \/ PostDataArtifact(1)
    \/ PostDataInitDb(1)
    \/ PostDataCreate(1)
    \/ PostDataDeploy(1)

SpecJson == InitJson /\ [][NextJson]_vars

\* ----------------------------------------------------------- observations

Done(r) == req[r].pc = "done"

\* Request r's ioutil.WriteFile returned nil.
WriteSucceeded(r) == req[r].outFile # << >> /\ ~req[r].writeErr

\* The table holds the row request r inserted.
HasRow(r) == \E i \in 1..Len(rows) : rows[i] = req[r].info

\* The deploy processes request r started.
Launches(r) == {i \in 1..Len(procs) : procs[i].by = r}

Launched(r) == Launches(r) # {}

\* Request r has touched neither the file store, nor the database, nor the
\* process launcher.
NoEffect(r) ==
    /\ req[r].outFile = << >>
    /\ req[r].jsonOut = << >>
    /\ ~req[r].writeErr
    /\ req[r].db = "none"
    /\ req[r].info = NoInfo
    /\ ~req[r].createErr
    /\ ~req[r].cmdErr
    /\ ~Launched(r)

\* Every file, row and deploy process is the work of a request that reached
\* the stage which makes it.
EffectsAccounted ==
    /\ \A p \in DOMAIN files :
          \E q \in Reqs : req[q].outFile = p /\ files[p] \in {req[q].jsonOut, << >>}
    /\ \A i \in 1..Len(rows) : \E q \in Reqs : req[q].info = rows[i]
    /\ \A i \in 1..Len(procs) :
          /\ Done(procs[i].by)
          /\ req[procs[i].by].outFile = procs[i].JSON_FILE

\* --------------------------------------------------------------------- C1

\* C1 as stated: a row is inserted for a request if and only if that
\* request's artifact file write succeeded: a row implies a successful write,
\* and a completed request whose write succeeded has a row.
C1_RowIffWrite ==
    \A r \in Reqs :
       /\ HasRow(r) => WriteSucceeded(r)
       /\ Done(r) /\ WriteSucceeded(r) => HasRow(r)

\* C1 as amended: a row is inserted for a request only if that request's
\* artifact file write succeeded; a completed request whose write succeeded
\* and that has no row is one whose database open failed (answered 500) or
\* whose insert failed.
C1_RowOnlyAfterWrite ==
    \A r \in Reqs :
       /\ HasRow(r) => WriteSucceeded(r)
       /\ Done(r) /\ WriteSucceeded(r) /\ ~HasRow(r)
             => req[r].resp.status = 500 \/ req[r].createErr

\* A request has completed with its file written and its row inserted, and
\* another with its file written and the database not opened.
C1_Witness ==
    /\ \E r \in Reqs : Done(r) /\ WriteSucceeded(r) /\ HasRow(r)
    /\ \E r \in Reqs : Done(r) /\ WriteSucceeded(r) /\ ~HasRow(r)

\* --------------------------------------------------------------------- C2

\* C2 as stated: the deploy process is launched for a request if and only if
\* that request's insert succeeded with non-empty data; it is never started
\* for a request whose insert failed.
C2_DeployIffInsert ==
    \A r \in Reqs :
       /\ Launched(r) => HasRow(r) /\ req[r].info.Data # << >> /\ ~req[r].createErr
       /\ Done(r) /\ HasRow(r) => Launched(r)

\* --------------------------------------------------------------------- C3

\* C3 as stated: a request whose insert failed does not carry the 201
\* response and does not go on to the deploy trigger.
C3_InsertFailureFails ==
    \A r \in Reqs :
       req[r].createErr =>
          /\ req[r].resp.status # 201
          /\ req[r].pc # "deploy"
          /\ ~Launched(r)

\* --------------------------------------------------------------------- C4

\* PostData has finished reading and validating request r's body.
Validated(r) == req[r].pc \notin {"idle", "auth", "validate"} /\ req[r].resp.status # 401

\* The nesting depth at which token i of src stands.
DepthAt(src, i) ==
    Cardinality({j \in 1..(i - 1) : src[j] \in {P("{"), P("[")}})
       - Cardinality({j \in 1..(i - 1) : src[j] \in {P("}"), P("]")}})

\* The values of the members of the top-level object of body whose key
\* satisfies Match.
MemberValues(body, Match(_)) ==
    LET src == StripWs(body)
    IN  {src[i + 1] : i \in {j \in 2..(Len(src) - 1) :
                                /\ src[1] = P("{")
                                /\ src[j] = P(":")
                                /\ DepthAt(src, j) = 1
                                /\ Match(src[j - 1].v)}}

\* A JSON value that is no non-empty alphanumeric string.
BadTicketValue(t) ==
    \/ t.k # "s"
    \/ t.v = << >>
    \/ \E j \in 1..Len(t.v) : ~IsAlnumChar(t.v[j])

IsTicket(key) == key = TicketKey

IsTicketAnyCase(key) == Fold(key) = Fold(TicketKey)

\* body is valid JSON whose member `ticket` is missing, not a string, empty
\* or not alphanumeric.
BadTicket(body) ==
    ValidJSON(body) /\ \A t \in MemberValues(body, IsTicket) : BadTicketValue(t)

\* The same, `ticket` standing for any key equal to it up to the case of its
\* letters.
BadTicketAnyCase(body) ==
    ValidJSON(body) /\ \A t \in MemberValues(body, IsTicketAnyCase) : BadTicketValue(t)

\* The bodies the clients send that are of each kind.
InvalidBodies == {b \in Bodies : ~ValidJSON(b)}

BadTicketBodies == {b \in Bodies : BadTicket(b)}

BadTicketAnyCaseBodies == {b \in Bodies : BadTicketAnyCase(b)}

\* The response is 453 and request r has made and changed nothing.
Rejected453(r) ==
    /\ Done(r)
    /\ req[r].resp.status = 453
    /\ req[r].resp.key = "error"
    /\ NoEffect(r)

\* C4 as stated: every request PostData has validated whose body is valid
\* JSON with `ticket` missing, not a string, empty or not alphanumeric is
\* answered 453, and creates or changes no file, no row and no deploy process.
C4_BadTicket453 ==
    /\ EffectsAccounted
    /\ \A r \in Reqs : Validated(r) /\ req[r].body \in BadTicketBodies => Rejected453(r)

\* C4 as amended: the same for every body in which no member whose key
\* equals `ticket` up to the case of its letters (the decoder's match of a
\* key against the field Ticket) holds a non-empty alphanumeric string.
C4_BadTicketAnyCase453 ==
    /\ EffectsAccounted
    /\ \A r \in Reqs : Validated(r) /\ req[r].body \in BadTicketAnyCaseBodies => Rejected453(r)

\* A request with a non-alphanumeric ticket and one with a numeric ticket have
\* both been answered.
C4_Witness ==
    /\ \E r \in Reqs : req[r].body = BodyDashTicket /\ Validated(r) /\ Done(r)
    /\ \E r \in Reqs : req[r].body = BodyNumTicket /\ Validated(r) /\ Done(r)

\* --------------------------------------------------------------------- C5

\* C5: every request PostData has taken up whose body is not valid JSON is
\* answered 452 and has no side effect: it has touched no file, no row, no
\* connection and no process, and every file, row and process there is was
\* made by another request.
C5_InvalidJSON452 ==
    /\ EffectsAccounted
    /\ \A r \in Reqs :
          Validated(r) /\ req[r].body \in InvalidBodies =>
             /\ Done(r)
             /\ req[r].resp.status = 452
             /\ req[r].resp.key = "error"
             /\ NoEffect(r)

\* An empty body and a truncated one have both been answered.
C5_Witness ==
    /\ \E r \in Reqs : req[r].body = BodyEmpty /\ Validated(r) /\ Done(r)
    /\ \E r \in Reqs : req[r].body = BodyTruncated /\ Validated(r) /\ Done(r)

\* --------------------------------------------------------------------- C6

\* The middleware, when installed, has dealt with request r.
PastAuth(r) == req[r].pc \notin {"idle", "auth"}

\* C6: with a token configured, every request without the header or with
\* another token is answered 401 and has no side effect, whatever its body;
\* with no token configured, no request meets the token check.
C6_Auth401 ==
    /\ EffectsAccounted
    /\ apiToken # "" =>
          \A r \in Reqs :
             PastAuth(r) /\ req[r].token # apiToken =>
                /\ Done(r)
                /\ req[r].resp.status = 401
                /\ req[r].resp.key = "error"
                /\ NoEffect(r)
    /\ apiToken = "" =>
          \A r \in Reqs : req[r].pc # "auth" /\ req[r].resp.status # 401

\* With a token configured, a request without the header and a request with
\* another token, one of them with a valid body, have both been answered.
C6_Witness ==
    /\ apiToken # ""
    /\ \E r \in Reqs : req[r].token = "" /\ Done(r)
    /\ \E r \in Reqs : req[r].token = "wrong" /\ req[r].body = BodyA1 /\ Done(r)

\* --------------------------------------------------------------------- C7

\* Request r is authorised and its body is valid JSON with an alphanumeric
\* ticket.
ValidRequest(r) ==
    /\ apiToken = "" \/ req[r].token = apiToken
    /\ req[r].body \in Bodies \ (InvalidBodies \cup BadTicketAnyCaseBodies)

\* The ticket of a body that has one.
TicketOf(body) ==
    (CHOOSE t \in MemberValues(body, IsTicketAnyCase) : ~BadTicketValue(t)).v

\* <data_dir>/T.json
ArtifactPath(T) == <<"/data", "/">> \o T \o <<".json">>

\* No stage of request r has failed.
NoStageFailure(r) ==
    /\ ~req[r].writeErr
    /\ req[r].resp.status # 500
    /\ ~req[r].createErr
    /\ ~req[r].cmdErr

\* No request has been sent after request r.
Latest(r) == \A q \in Reqs : q > r => req[q].pc = "idle"

\* C7: requests being sent one at a time, once the latest request, valid with
\* ticket T, has been handled with no stage failure: <data_dir>/T.json holds
\* the indented rendering of the compacted body (which compacts back to it),
\* the table holds exactly one row for the request, its payload the compacted
\* body, the request has started the deploy executable exactly once, with
\* JSON_FILE that path, and the response is 201 carrying that row.
C7_SingleValidRequest ==
    \A r \in Reqs :
       Latest(r) /\ Done(r) /\ ValidRequest(r) /\ NoStageFailure(r) =>
          LET path == ArtifactPath(TicketOf(req[r].body))
              compacted == StripWs(req[r].body)
              row == req[r].resp.info
          IN  /\ path \in DOMAIN files
              /\ files[path] = Indent(compacted).out \o <<Newline>>
              /\ StripWs(files[path]) = compacted
              /\ Cardinality({i \in 1..Len(rows) : rows[i] = row}) = 1
              /\ rows[Len(rows)] = row
              /\ row.Id = Len(rows)
              /\ row.Data = compacted
              /\ Len(rows) = Cardinality({q \in Reqs : HasRow(q)})
              /\ Cardinality(Launches(r)) = 1
              /\ \A i \in Launches(r) : procs[i].JSON_FILE = path
              /\ req[r].resp = SuccessResp(row)

\* The request { "ticket" : "AB12", "x":1 } has been handled with no stage
\* failure and is the latest.
C7_Witness ==
    \E r \in Reqs :
       /\ req[r].body = BodyA1
       /\ Latest(r) /\ Done(r) /\ ValidRequest(r) /\ NoStageFailure(r)

\* --------------------------------------------------------------------- C8

\* C8: requests being sent one at a time, once two valid requests with the
\* same ticket have been handled with no stage failure, the second the last
\* to write that file: the file holds the second request's payload, each of
\* the two has a row of its own, and when no other request has had an effect
\* the table holds exactly two rows and the file store exactly one file.
C8_SameTicketTwice ==
    \A r1, r2 \in Reqs :
       (/\ r1 < r2
        /\ Done(r1) /\ ValidRequest(r1) /\ NoStageFailure(r1)
        /\ Done(r2) /\ ValidRequest(r2) /\ NoStageFailure(r2)
        /\ TicketOf(req[r1].body) = TicketOf(req[r2].body)
        /\ \A q \in Reqs : q > r2 => req[q].outFile # req[r2].outFile)
       =>
          LET path == ArtifactPath(TicketOf(req[r2].body))
          IN  /\ path \in DOMAIN files
              /\ files[path] = Indent(StripWs(req[r2].body)).out \o <<Newline>>
              /\ HasRow(r1) /\ HasRow(r2)
              /\ req[r1].info.Id # req[r2].info.Id
              /\ req[r1].info.Data = StripWs(req[r1].body)
              /\ req[r2].info.Data = StripWs(req[r2].body)
              /\ (\A q \in Reqs \ {r1, r2} : NoEffect(q)) =>
                    /\ Len(rows) = 2
                    /\ Cardinality(DOMAIN files) = 1

\* { "ticket" : "AB12", "x":1 } then {"ticket":"AB12","x":2} have been
\* handled with no stage failure.
C8_Witness ==
    \E r1, r2 \in Reqs :
       /\ r1 < r2
       /\ req[r1].body = BodyA1 /\ req[r2].body = BodyA2
       /\ Done(r1) /\ ValidRequest(r1) /\ NoStageFailure(r1)
       /\ Done(r2) /\ ValidRequest(r2) /\ NoStageFailure(r2)
       /\ \A q \in Reqs : q > r2 => req[q].outFile # req[r2].outFile

\* --------------------------------------------------------------------- C9

\* C9 as stated: no request whose handling has ended, by a response or by
\* the deploy executable failing to start, leaves its database connection
\* open.
C9_ConnectionClosed ==
    \A r \in Reqs : req[r].pc \in {"done", "fatal"} => req[r].db # "open"

\* -------------------------------------------------------------------- C10

\* C10: a request whose artifact file write failed is answered 455, opens no
\* database connection, inserts no row and starts no deploy process.
C10_WriteFailure455 ==
    /\ EffectsAccounted
    /\ \A r \in Reqs :
          req[r].writeErr =>
             /\ Done(r)
             /\ req[r].resp.status = 455
             /\ req[r].resp.key = "error"
             /\ req[r].db = "none"
             /\ req[r].info = NoInfo
             /\ ~HasRow(r)
             /\ ~Launched(r)

\* A request's file write has failed while another request holds a row.
C10_Witness ==
    \E r, q \in Reqs : req[r].writeErr /\ Done(r) /\ HasRow(q)

\* -------------------------------------------------------------------- C11

\* The statuses of section 7's error taxonomy.
ErrorStatuses == {401, 452, 453, 454, 455, 456}

\* A response has been produced for request r.
Responded(r) == req[r].resp # NoResp

\* Request r's gorm.Open failed: its file is written, InitDb panicked before
\* a connection or a record existed.
OpenFailed(r) ==
    /\ Done(r)
    /\ WriteSucceeded(r)
    /\ req[r].db = "none"
    /\ req[r].info = NoInfo

\* C11 as stated: every response is either 201 with a `success` body carrying
\* the persisted record, or one of 401, 452, 453, 454, 455, 456 with an
\* `error` body; no other status is produced.
C11_ResponseTaxonomy ==
    \A r \in Reqs :
       Responded(r) =>
          \/ /\ req[r].resp.status = 201
             /\ req[r].resp.key = "success"
             /\ \E i \in 1..Len(rows) : rows[i] = req[r].resp.info
          \/ /\ req[r].resp.status \in ErrorStatuses
             /\ req[r].resp.key = "error"

\* C11 as amended: every response is 201 with a `success` body carrying the
\* record handed to the insert (a row of the table unless the insert failed),
\* or one of 401, 452, 453, 454, 455, 456 with an `error` body, or 500 with
\* neither body, and 500 is the response exactly of a request whose database
\* open failed.
C11_ResponseTaxonomyWith500 ==
    \A r \in Reqs :
       /\ Responded(r) =>
             \/ /\ req[r].resp.status = 201
                /\ req[r].resp.key = "success"
                /\ req[r].resp.info = req[r].info
                /\ req[r].info.Data = req[r].payload
                /\ ~req[r].createErr => \E i \in 1..Len(rows) : rows[i] = req[r].resp.info
             \/ /\ req[r].resp.status \in ErrorStatuses
                /\ req[r].resp.key = "error"
             \/ /\ req[r].resp = RecoveryResp
                /\ OpenFailed(r)
       /\ OpenFailed(r) => req[r].resp = RecoveryResp

\* One request has been answered 500 and another 201 with its row.
C11_Witness ==
    \E r, q \in Reqs :
       /\ req[r].resp.status = 500
       /\ req[q].resp.status = 201 /\ HasRow(q)

\* -------------------------------------------------------------------- C12

\* The place of a handler position in the order of the pipeline.
Rank(pc) ==
    CASE pc = "idle" -> 0
      [] pc = "auth" -> 1
      [] pc = "validate" -> 2
      [] pc = "artifact" -> 3
      [] pc = "initdb" -> 4
      [] pc = "create" -> 5
      [] pc = "deploy" -> 6
      [] pc \in {"done", "fatal"} -> 7

\* The bodies the clients send that pass compaction and validation.
ValidBodies == Bodies \ (InvalidBodies \cup BadTicketAnyCaseBodies)

\* A step of request r's pipeline.
Steps(r) == req'[r] # req[r]

\* C12 as stated: a request that carries a response has ended its pipeline,
\* and one that carries 201 has launched its deploy process.
C12_ResponseIsTerminal ==
    \A r \in Reqs :
       Responded(r) =>
          /\ Done(r)
          /\ req[r].resp.status = 201 => Launched(r)

\* C12 as amended: every step of a request moves it forward in the
\* pipeline; an error response ends the pipeline; 201 is produced once the
\* body is validated, the file written, the database opened and the insert
\* attempted, before the deploy launch; the only step a request takes after a
\* response is the deploy launch after 201, which leaves the response as it
\* is.
C12_ForwardOnly ==
    [][\A r \in Reqs :
          /\ Steps(r) => Rank(req'[r].pc) > Rank(req[r].pc)
          /\ Steps(r) /\ Responded(r) =>
                /\ req[r].resp.status = 201
                /\ req[r].pc = "deploy"
                /\ req'[r].resp = req[r].resp
          /\ req'[r].resp # NoResp /\ req'[r].resp.status # 201 => req'[r].pc = "done"
          /\ req'[r].resp.status = 201 =>
                /\ req'[r].pc \in {"deploy", "done", "fatal"}
                /\ req'[r].body \in ValidBodies
                /\ req'[r].outFile # << >> /\ ~req'[r].writeErr
                /\ req'[r].db # "none"
                /\ req'[r].info.Data = req'[r].payload
                /\ req'[r].pc = "done" <=> \E i \in 1..Len(procs') : procs'[i].by = r
    ]_vars

\* One request carries 201 and has yet to launch its deploy process; another
\* carries 201 and has launched it.
C12_Witness ==
    \E r, q \in Reqs :
       /\ req[r].resp.status = 201 /\ req[r].pc = "deploy"
       /\ req[q].resp.status = 201 /\ Done(q) /\ Launched(q)

\* -------------------------------------------------------------------- C13

\* The deploy executable could not be started for some request.
StartFailed == \E r \in Reqs : req[r].cmdErr

\* C13: the serving process runs exactly as long as no cmd.Start() has
\* failed, the request whose cmd.Start() failed ends there, and once one has
\* failed no request takes a further step or has a response produced, and no
\* file, row or process is made.
C13_FatalStopsEverything ==
    [][/\ StartFailed' <=> ~alive'
       /\ \A r \in Reqs : req'[r].cmdErr => req'[r].pc = "fatal"
       /\ StartFailed => UNCHANGED <<req, files, hasTable, rows, procs>>
    ]_vars

\* The deploy executable could not be started for one request while another,
\* sent and not yet answered, stands in the middle of its pipeline.
C13_Witness ==
    \E r, q \in Reqs :
       /\ req[r].cmdErr /\ req[r].pc = "fatal"
       /\ ~alive
       /\ InFlight(q) /\ ~Responded(q)

\* -------------------------------------------------------------------- C15

\* s is the beginning of t.
IsPrefix(s, t) == Len(s) <= Len(t) /\ SubSeq(t, 1, Len(s)) = s

\* A stage of request r after its file write has failed.
FailedAfterWrite(r) ==
    WriteSucceeded(r) /\ (req[r].resp.status \in {500, 456} \/ req[r].createErr \/ req[r].cmdErr)

\* C15: every step a request takes after it has written its file (database
\* open, insert, 456, deploy launch, failing or not) leaves every file as it
\* is and keeps every row and every started process; so after a later stage
\* of the request has failed, its file holds what it wrote unless another
\* request has written the same path, and the row it inserted is in the
\* table.
C15_NoRollback ==
    [][\A r \in Reqs :
          /\ Steps(r) /\ WriteSucceeded(r) =>
                /\ files' = files
                /\ IsPrefix(rows, rows')
                /\ IsPrefix(procs, procs')
          /\ (/\ FailedAfterWrite(r)'
              /\ \A q \in Reqs \ {r} : req'[q].outFile # req'[r].outFile)
                => /\ req'[r].outFile \in DOMAIN files'
                   /\ files'[req'[r].outFile] = req'[r].jsonOut
          /\ FailedAfterWrite(r)' /\ req'[r].info.Id # 0 =>
                /\ req'[r].info.Id <= Len(rows')
                /\ rows'[req'[r].info.Id] = req'[r].info
    ]_vars

\* One request's database open has failed after its file write, and another
\* request's deploy start has failed after its insert.
C15_Witness ==
    \E r, q \in Reqs :
       /\ WriteSucceeded(r) /\ req[r].resp.status = 500
       /\ req[r].outFile \in DOMAIN files
       /\ req[q].cmdErr /\ HasRow(q)

\* -------------------------------------------------------------------- C16

\* The requests answered 201.
Answered201 == {r \in Reqs : req[r].resp.status = 201}

\* C16 as stated: the rows carry distinct identifiers in insertion order,
\* each request has at most one row, every 201 response carries exactly one
\* row of the table, and the table holds as many rows as there are 201
\* responses.
C16_RowsMatch201 ==
    /\ \A i \in 1..Len(rows) : rows[i].Id = i
    /\ \A r \in Reqs : Cardinality({i \in 1..Len(rows) : rows[i] = req[r].info}) <= 1
    /\ \A r \in Answered201 :
          Cardinality({i \in 1..Len(rows) : rows[i] = req[r].resp.info}) = 1
    /\ Len(rows) = Cardinality(Answered201)

\* -------------------------------------------------------------------- C17

\* The requests that have called ioutil.WriteFile on path.
Writers(path) == {q \in Reqs : req[q].outFile = path}

\* Request r is valid and has completed with no stage failure.
Succeeded(r) == Done(r) /\ ValidRequest(r) /\ NoStageFailure(r)

Launch(r) == req[r].pc = "deploy" /\ req'[r].pc = "done"

C19_DefensiveBranchesDead ==
    \A r \in Reqs :
       /\ req[r].resp.status \notin {454, 456}
       /\ Validated(r) /\ req[r].resp.status # 452 =>
             /\ req[r].payload = Compact(req[r].body).out
             /\ ~Compact(req[r].body).err
             /\ req[r].payload # << >>
             /\ ~Indent(req[r].payload).err
       /\ req[r].pc \in {"artifact", "initdb", "create", "deploy"} =>
             ValidateStruct(req[r].tmp) = "" /\ req[r].payload # << >>

\* The body {"ticket":"AB12"} has gone through the whole pipeline, and was
\* answered 201.
C19_Witness ==
    /\ req[1].body = <<P("{"), S(TicketKey), P(":"), S(AB12), P("}")>>
    /\ Done(1)
    /\ req[1].resp.status = 201
    /\ Launched(1)

\* -------------------------------------------------------------------- C20

\* Request r has reached its outcome: its handler has returned, or the
\* serving process has terminated.
Terminal(r) == Done(r) \/ ~alive

\* C20: handlers being scheduled fairly and their blocking calls returning,
\* every request that is sent reaches its outcome and stays there (from some
\* point on every request is unsent or at its outcome); every step of a request
\* takes it to a later stage, so no stage runs twice; a response, once
\* produced, is never replaced by another; and a request whose handler has
\* returned carries a response.
C20_EveryRequestEnds ==
    /\ <>[](\A r \in Reqs : req[r].pc = "idle" \/ Terminal(r))
    /\ [][\A r \in Reqs :
             /\ Steps(r) => Rank(req'[r].pc) > Rank(req[r].pc)
             /\ Responded(r) => req'[r].resp = req[r].resp
             /\ Terminal(r) => Terminal(r)'
       ]_vars
    /\ [](\A r \in Reqs : Done(r) => Responded(r))

\* One request's handler has returned with a response after going through
\* every stage, and the process has terminated on another.
C20_Witness ==
    \E r, q \in Reqs :
       /\ Done(r) /\ Responded(r) /\ Launched(r)
       /\ req[q].pc = "fatal" /\ ~alive

=============================================================================
